---- MODULE Spec2Model ----
\* Model of boa_unicode/build_tables.js: download PropList.txt, parse it with
\* dataRegex, build one sorted code point table per target property, write
\* the Rust file and run rustfmt on it.
\*
\* Text is a sequence of one-character strings.  The generated Rust source is
\* a sequence of tokens: fixed pieces of the template literals are one token
\* each, hexadecimal digits are one token per character.
EXTENDS Integers, Sequences, FiniteSets, TLC

VARIABLES
  pc,          \* position of the run
  statusCode,  \* status of the response, 0 before there is one
  framing,     \* how the response delimits its body
  errored,     \* the request has emitted 'error'
  src,         \* the lines the served text was made of
  body,        \* the bytes the server sends
  pending,     \* the bytes not yet delivered in a 'data' event
  received,    \* the chunks of the 'data' events so far, in their order
  text,        \* let text, accumulated by the 'data' handler
  data,        \* const data of buildRustFile
  tables,      \* codePoints of each target property
  rustFile,    \* const rustFile of buildRustFile
  file,        \* content of OUTPUT_FILE
  fmtCalls,    \* number of invocations of rustfmt
  buildCalls,  \* number of calls of buildRustFile
  log          \* console output

vars == <<pc, statusCode, framing, errored, src, body, pending, received, text, data, tables,
          rustFile, file, fmtCalls, buildCalls, log>>

\* ------------------------------------------------------------------
\* Bounds of the model
\* ------------------------------------------------------------------
\* number of lines of the text handed to buildRustFile (SpecBuild)
MaxLines == 2
\* number of lines of the body the server sends (Spec)
MaxBodyLines == 1
\* number of 'data' events of one response
MaxChunks == 2

\* ------------------------------------------------------------------
\* Configuration of the script
\* ------------------------------------------------------------------
Pattern_Syntax == <<"P","a","t","t","e","r","n","_","S","y","n","t","a","x">>
Other_ID_Continue ==
  <<"O","t","h","e","r","_","I","D","_","C","o","n","t","i","n","u","e">>
Other_ID_Start == <<"O","t","h","e","r","_","I","D","_","S","t","a","r","t">>
Pattern_White_Space ==
  <<"P","a","t","t","e","r","n","_","W","h","i","t","e","_","S","p","a","c","e">>

TARGET_PROPERTIES ==
  << <<Pattern_Syntax, "PATTERN_SYNTAX">>,
     <<Other_ID_Continue, "OTHER_ID_CONTINUE">>,
     <<Other_ID_Start, "OTHER_ID_START">>,
     <<Pattern_White_Space, "PATTERN_WHITE_SPACE">> >>

OUTPUT_FILE_DOC_COMMENT ==
  "//! This module implements the unicode lookup tables for identifier and pattern syntax. [...]"

\* ------------------------------------------------------------------
\* dataRegex:
\*  /(^|\n)(?<codePointStart>[0-9A-F]+)(\.\.(?<codePointEnd>[0-9A-F]+))?
\*   \s*;\s*(?<property>[^\s]+)/gi
\* ------------------------------------------------------------------
\* [0-9A-F] under the i flag
HexDigits == {"0","1","2","3","4","5","6","7","8","9",
              "A","B","C","D","E","F","a","b","c","d","e","f"}
\* \s: U+0009..U+000D, U+0020, U+00A0, U+1680, U+FEFF.  \s also matches
\* U+2000..U+200A, U+2028, U+2029, U+202F, U+205F and U+3000, characters
\* that a string of a module cannot hold; no text of the model has them.
WhiteSpace ==
  {" ", "\t", "\n", "", "\f", "\r", " ", " ", "﻿"}

IsHex(c) == c \in HexDigits
IsSpace(c) == c \in WhiteSpace

\* value of a capture group that did not take part in the match
Undefined == <<"undefined">>
NoMatch == [ok |-> FALSE]

RECURSIVE HexRunEnd(_, _)
\* [0-9A-F]+ is greedy: index just after the longest run of digits from i
HexRunEnd(t, i) ==
  IF i <= Len(t) /\ IsHex(t[i]) THEN HexRunEnd(t, i + 1) ELSE i

RECURSIVE SpaceRunEnd(_, _)
\* \s* is greedy: index just after the longest run of white space from i
SpaceRunEnd(t, i) ==
  IF i <= Len(t) /\ IsSpace(t[i]) THEN SpaceRunEnd(t, i + 1) ELSE i

RECURSIVE NonSpaceRunEnd(_, _)
\* [^\s]+ is greedy: index just after the longest run of non-space from i
NonSpaceRunEnd(t, i) ==
  IF i <= Len(t) /\ ~IsSpace(t[i]) THEN NonSpaceRunEnd(t, i + 1) ELSE i

RECURSIVE LineEnd(_, _)
LineEnd(t, i) ==
  IF i <= Len(t) /\ t[i] # "\n" THEN LineEnd(t, i + 1) ELSE i

MatchTailToLineEnd(t, q) ==
  LET a == SpaceRunEnd(t, q) IN
  IF a > Len(t) \/ t[a] # ";" THEN NoMatch
  ELSE LET b == SpaceRunEnd(t, a + 1)
           c == LineEnd(t, b)
       IN IF c = b THEN NoMatch
          ELSE [ok |-> TRUE, end |-> c, property |-> SubSeq(t, b, c - 1)]

\* \s*;\s*(?<property>[^\s]+) matched from index q
MatchTail(t, q) ==
  LET a == SpaceRunEnd(t, q) IN
  IF a > Len(t) \/ t[a] # ";" THEN NoMatch
  ELSE LET b == SpaceRunEnd(t, a + 1)
           c == NonSpaceRunEnd(t, b)
       IN IF c = b THEN NoMatch
          ELSE [ok |-> TRUE, end |-> c, property |-> SubSeq(t, b, c - 1)]

\* one attempt of the regex with the match starting at index p (1-based).
\* ^ has no m flag: it matches at the start of the text only.  No shorter
\* choice of a greedy run can succeed where the longest fails, because the
\* character after a shortened run belongs to the run's class.
ExecAt(t, p) ==
  LET hs == IF p = 1 /\ Len(t) >= 1 /\ IsHex(t[1]) THEN 1
            ELSE IF p <= Len(t) /\ t[p] = "\n" THEN p + 1
            ELSE 0
  IN IF hs = 0 THEN NoMatch
     ELSE
       LET he == HexRunEnd(t, hs) IN
       IF he = hs THEN NoMatch
       ELSE
         LET hasDots == he + 1 <= Len(t) /\ t[he] = "." /\ t[he + 1] = "."
             e2 == IF hasDots THEN HexRunEnd(t, he + 2) ELSE he + 2
             withEnd == hasDots /\ e2 > he + 2
             tail == MatchTail(t, IF withEnd THEN e2 ELSE he)
         IN IF tail.ok
            THEN [ok |-> TRUE, end |-> tail.end,
                  groups |->
                    [codePointStart |-> SubSeq(t, hs, he - 1),
                     codePointEnd |-> IF withEnd THEN SubSeq(t, he + 2, e2 - 1)
                                      ELSE Undefined,
                     property |-> tail.property]]
            ELSE NoMatch

RECURSIVE MatchAllFrom(_, _)
\* the g flag: each search resumes at the end of the previous match
MatchAllFrom(t, lastIndex) ==
  IF lastIndex > Len(t) THEN <<>>
  ELSE LET m == ExecAt(t, lastIndex) IN
       IF m.ok THEN <<m.groups>> \o MatchAllFrom(t, m.end)
       ELSE MatchAllFrom(t, lastIndex + 1)

\* [...propListText.matchAll(dataRegex)].map((match) => match.groups)
MatchAll(propListText) == MatchAllFrom(propListText, 1)

\* ------------------------------------------------------------------
\* Table Builder
\* ------------------------------------------------------------------
HexVal(c) ==
  CASE c = "0" -> 0 [] c = "1" -> 1 [] c = "2" -> 2 [] c = "3" -> 3
    [] c = "4" -> 4 [] c = "5" -> 5 [] c = "6" -> 6 [] c = "7" -> 7
    [] c = "8" -> 8 [] c = "9" -> 9
    [] c \in {"A", "a"} -> 10 [] c \in {"B", "b"} -> 11
    [] c \in {"C", "c"} -> 12 [] c \in {"D", "d"} -> 13
    [] c \in {"E", "e"} -> 14 [] c \in {"F", "f"} -> 15

RECURSIVE ParseInt16(_)
\* parseInt(s, 16) of a non-empty string of hexadecimal digits
ParseInt16(s) ==
  IF Len(s) = 0 THEN 0
  ELSE 16 * ParseInt16(SubSeq(s, 1, Len(s) - 1)) + HexVal(s[Len(s)])

\* codePointEnd ?? codePointStart
Coalesce(codePointEnd, codePointStart) ==
  IF codePointEnd = Undefined THEN codePointStart ELSE codePointEnd

RangeOfStartOnly(r) ==
  <<ParseInt16(r.codePointStart), ParseInt16(r.codePointStart)>>

\* the two .map steps: the numeric [codePointStart, codePointEnd] of a record
RangeOf(r) ==
  <<ParseInt16(r.codePointStart),
    ParseInt16(Coalesce(r.codePointEnd, r.codePointStart))>>

ExpandOffByOne(codePointStart, codePointEnd) ==
  IF codePointStart < codePointEnd
  THEN [i \in 1..(codePointEnd - codePointStart) |-> codePointStart + i - 1]
  ELSE <<>>

\* for (let cp = codePointStart; cp <= codePointEnd; cp++) codePoints.push(cp)
Expand(codePointStart, codePointEnd) ==
  IF codePointStart <= codePointEnd
  THEN [i \in 1..(codePointEnd - codePointStart + 1) |-> codePointStart + i - 1]
  ELSE <<>>

FilterNone(d, propertyName) == d

\* data.filter(({ property }) => property === propertyName)
FilterProperty(d, propertyName) ==
  SelectSeq(d, LAMBDA r : r.property = propertyName)

RECURSIVE ReduceExpand(_)
\* .reduce(..., []) over the numeric ranges, in the order of the records
ReduceExpand(ranges) ==
  IF Len(ranges) = 0 THEN <<>>
  ELSE ReduceExpand(SubSeq(ranges, 1, Len(ranges) - 1))
       \o Expand(ranges[Len(ranges)][1], ranges[Len(ranges)][2])

SortNone(codePoints) == codePoints

\* codePoints.sort((a, b) => a - b)
SortAscending(codePoints) == SortSeq(codePoints, LAMBDA a, b : a < b)

\* the code points of one target property, lines 96-113
CodePointsOf(d, propertyName) ==
  LET selected == FilterProperty(d, propertyName)
      ranges == [i \in 1..Len(selected) |-> RangeOf(selected[i])]
  IN SortAscending(ReduceExpand(ranges))

\* ------------------------------------------------------------------
\* Code Generator
\* ------------------------------------------------------------------
LowerHexDigit(n) ==
  CASE n = 0 -> "0" [] n = 1 -> "1" [] n = 2 -> "2" [] n = 3 -> "3"
    [] n = 4 -> "4" [] n = 5 -> "5" [] n = 6 -> "6" [] n = 7 -> "7"
    [] n = 8 -> "8" [] n = 9 -> "9" [] n = 10 -> "a" [] n = 11 -> "b"
    [] n = 12 -> "c" [] n = 13 -> "d" [] n = 14 -> "e" [] n = 15 -> "f"

RECURSIVE ToString16(_)
\* cp.toString(16)
ToString16(n) ==
  IF n < 16 THEN <<LowerHexDigit(n)>>
  ELSE ToString16(n \div 16) \o <<LowerHexDigit(n % 16)>>

RECURSIVE PadStart(_, _, _)
\* s.padStart(width, c)
PadStart(s, width, c) ==
  IF Len(s) >= width THEN s ELSE PadStart(<<c>> \o s, width, c)

UpperChar(c) ==
  CASE c = "a" -> "A" [] c = "b" -> "B" [] c = "c" -> "C"
    [] c = "d" -> "D" [] c = "e" -> "E" [] c = "f" -> "F"
    [] OTHER -> c

\* s.toUpperCase()
ToUpperCase(s) == [i \in 1..Len(s) |-> UpperChar(s[i])]

\* `'\\u{${cp.toString(16).padStart(4, "0").toUpperCase()}}'`
CharLiteral(cp) ==
  <<"'\\u{">> \o ToUpperCase(PadStart(ToString16(cp), 4, "0")) \o <<"}'">>

RECURSIVE Join(_, _)
\* parts.join(sep), parts a sequence of token sequences
Join(parts, sep) ==
  IF Len(parts) = 0 THEN <<>>
  ELSE IF Len(parts) = 1 THEN parts[1]
  ELSE Join(SubSeq(parts, 1, Len(parts) - 1), sep)
       \o <<sep>> \o parts[Len(parts)]

\* `&[${codePoints.map(...).join(",")}]`
RustTable(codePoints) ==
  <<"&[">>
  \o Join([i \in 1..Len(codePoints) |-> CharLiteral(codePoints[i])], ",")
  \o <<"]">>

\* `pub(crate) static ${rustTableName}: &[char] = ${rustTable};`
RustVariable(rustTableName, codePoints) ==
  <<"pub(crate) static ", rustTableName, ": &[char] = ">>
  \o RustTable(codePoints) \o <<";">>

\* the tables of all target properties, in the order of TARGET_PROPERTIES
BuildTables(d) ==
  [i \in 1..Len(TARGET_PROPERTIES) |-> CodePointsOf(d, TARGET_PROPERTIES[i][1])]

RustVariablesReversed(tbls) ==
  [i \in 1..Len(TARGET_PROPERTIES) |->
     RustVariable(TARGET_PROPERTIES[Len(TARGET_PROPERTIES) + 1 - i][2],
                  tbls[Len(TARGET_PROPERTIES) + 1 - i])]

\* TARGET_PROPERTIES.map(([propertyName, rustTableName]) => ...)
RustVariables(tbls) ==
  [i \in 1..Len(TARGET_PROPERTIES) |->
     RustVariable(TARGET_PROPERTIES[i][2], tbls[i])]

\* `${OUTPUT_FILE_DOC_COMMENT}\n\n${rustVariables.join("\n\n")}`
RustFileOf(tbls) ==
  <<OUTPUT_FILE_DOC_COMMENT, "\n\n">> \o Join(RustVariables(tbls), "\n\n")

RECURSIVE ToDecimal(_)
\* the decimal digits of a length
ToDecimal(n) ==
  IF n < 10 THEN <<LowerHexDigit(n)>>
  ELSE ToDecimal(n \div 10) \o <<LowerHexDigit(n % 10)>>

\* console.log(`${propertyName}: ${codePoints.length} code points`)
CountLines(tbls) ==
  [i \in 1..Len(TARGET_PROPERTIES) |->
     TARGET_PROPERTIES[i][1] \o <<":", " ">> \o ToDecimal(Len(tbls[i]))
       \o <<" code points">>]

\* ------------------------------------------------------------------
\* Input texts
\* ------------------------------------------------------------------
White_Space == <<"W","h","i","t","e","_","S","p","a","c","e">>
LowerCaseName == <<"p","a","t","t","e","r","n","_","s","y","n","t","a","x">>

SingleCodePoint == <<"0","0","4","1">>
AscendingRange == <<"0","0","4","1",".",".","0","0","4","3">>
ReversedRange == <<"0","0","4","3",".",".","0","0","4","1">>
FiveDigits == <<"1","f","0","0","a">>

InputRanges == {SingleCodePoint, AscendingRange, ReversedRange, FiveDigits}
Separator == <<" ", ";", " ">>

Line(lead, core, trail, form) ==
  [lead |-> lead, core |-> core, trail |-> trail, form |-> form]

\* lines of the form <hex-start>[..<hex-end>] ; <property-token>
PlainLines ==
  {Line(<<>>, r \o Separator \o Pattern_Syntax, <<>>, TRUE) : r \in InputRanges}
  \cup {Line(<<>>, SingleCodePoint \o Separator \o Other_ID_Start, <<>>, TRUE),
        Line(<<>>, AscendingRange \o Separator \o White_Space, <<>>, TRUE),
        Line(<<>>, SingleCodePoint \o Separator \o LowerCaseName, <<>>, TRUE),
        Line(<<>>, SingleCodePoint \o <<"", ";", " ">> \o Pattern_Syntax,
             <<>>, TRUE)}

\* the same form with leading white space, trailing white space, a trailing
\* comment after white space and a trailing comment right after the token
DecoratedLines ==
  {Line(d[1], AscendingRange \o Separator \o Pattern_Syntax, d[2], TRUE) :
     d \in { <<<<" ">>, <<>>>>,
             <<<<>>, <<" ">>>>,
             <<<<>>, <<" ", "#", " ", "c">>>>,
             <<<<>>, <<"\f", "#", "c">>>>,
             <<<<>>, <<"#", "c">>>> }}

\* blank line, full-line comment, malformed rows
NoiseLines ==
  {Line(<<>>, c, <<>>, FALSE) :
     c \in { <<>>,
             <<"#", " ", "©">>,
             <<"0","0","5","0">>,
             <<"0","0","5","0"," ",";">>,
             <<";", " ">> \o Pattern_Syntax }}

LineSet == PlainLines \cup DecoratedLines \cup NoiseLines

\* the lines of the bodies of the responses
BodyLineSet ==
  {Line(<<>>, <<"#", "©">>, <<>>, FALSE),
   Line(<<>>, <<"4", "1", ";">> \o Pattern_Syntax, <<>>, TRUE),
   Line(<<>>, <<>>, <<>>, FALSE)}

RenderLine(l) == l.lead \o l.core \o l.trail

RECURSIVE RenderText(_)
\* every line is terminated by a line feed
RenderText(lines) ==
  IF Len(lines) = 0 THEN <<>>
  ELSE RenderText(SubSeq(lines, 1, Len(lines) - 1))
       \o RenderLine(lines[Len(lines)]) \o <<"\n">>

Texts(n) == UNION {[1..k -> LineSet] : k \in 0..n}
BodyTexts(n) == UNION {[1..k -> BodyLineSet] : k \in 0..n}

\* UTF-8: an ASCII character is one byte, written as the character; U+00A0
\* is the bytes C2 A0 and U+00A9 the bytes C2 A9
LeadBytes == {"0xC2"}
ContinuationBytes == {"0xA0", "0xA9"}

Utf8EncodeChar(c) ==
  CASE c = " " -> <<"0xC2", "0xA0">>
    [] c = "©" -> <<"0xC2", "0xA9">>
    [] OTHER -> <<c>>

RECURSIVE Utf8Encode(_)
\* the bytes of a text on the wire
Utf8Encode(t) ==
  IF Len(t) = 0 THEN <<>>
  ELSE Utf8Encode(SubSeq(t, 1, Len(t) - 1)) \o Utf8EncodeChar(t[Len(t)])

RECURSIVE Utf8DecodeFrom(_, _)
Utf8DecodeFrom(b, i) ==
  IF i > Len(b) THEN <<>>
  ELSE IF b[i] \in LeadBytes
    THEN IF i + 1 <= Len(b) /\ b[i + 1] \in ContinuationBytes
         THEN <<IF b[i + 1] = "0xA0" THEN " " ELSE "©">>
              \o Utf8DecodeFrom(b, i + 2)
         ELSE <<"�">> \o Utf8DecodeFrom(b, i + 1)
  ELSE IF b[i] \in ContinuationBytes
    THEN <<"�">> \o Utf8DecodeFrom(b, i + 1)
  ELSE <<b[i]>> \o Utf8DecodeFrom(b, i + 1)

\* the string a Buffer becomes in text += chunk: each chunk is decoded on
\* its own, and the bytes of a character cut by the end or the start of the
\* chunk become U+FFFD each
Utf8Decode(chunk) == Utf8DecodeFrom(chunk, 1)

Statuses == {200, 404}
\* a Content-Length, the chunked coding, or the close of the connection; for
\* the last the body is what the server sent before the connection ended
Framings == {"length", "chunked", "close"}
OldFile == <<"previous content of src/tables.rs">>

\* what rustfmt makes of a source: the layout is rustfmt's, the content
\* depends on the source only
RustfmtOutput(source) == <<"rustfmt(">> \o source \o <<")">>

\* ------------------------------------------------------------------
\* The run
\* ------------------------------------------------------------------
Init ==
  /\ pc = "request"
  /\ statusCode = 0
  /\ framing = "none"
  /\ errored = FALSE
  /\ src = <<>>
  /\ body = <<>>
  /\ pending = <<>>
  /\ received = <<>>
  /\ text = <<>>
  /\ data = <<>>
  /\ tables = <<>>
  /\ rustFile = <<>>
  /\ file = OldFile
  /\ fmtCalls = 0
  /\ buildCalls = 0
  /\ log = <<>>

\* .on("error", (err) => console.log(`Failed to get 'PropList.txt': ...`)):
\* the handler only logs, and it stays on the request while the response is
\* read.  Before the response the run is over.  During the response the
\* handler changes nothing but the console, whatever delimits the body: the
\* 'data' events of the bytes already read and 'end' can still follow, or
\* the response is aborted.  A request emits 'error' once.
OnRequestError ==
  /\ ~errored
  /\ pc \in {"request", "response"}
  /\ pc' = IF pc = "request" THEN "reqError" ELSE pc
  /\ errored' = TRUE
  /\ log' = Append(log, "Failed to get 'PropList.txt'")
  /\ UNCHANGED <<statusCode, framing, src, body, pending, received, text, data,
                 tables, rustFile, file, fmtCalls, buildCalls>>

\* https.get(PROPLIST_TXT_URL, (res) => { let text = ""; ... }): the callback
\* runs for a response of any status
OnResponse ==
  /\ pc = "request"
  /\ \E status \in Statuses, lines \in BodyTexts(MaxBodyLines) :
       /\ statusCode' = status
       /\ src' = lines
       /\ body' = Utf8Encode(RenderText(lines))
       /\ pending' = Utf8Encode(RenderText(lines))
  /\ framing' \in Framings
  /\ text' = <<>>
  /\ pc' = "response"
  /\ UNCHANGED <<errored, received, data, tables, rustFile, file, fmtCalls,
                 buildCalls, log>>

OnDataOverwrite ==
  /\ pc = "response"
  /\ pending # <<>>
  /\ Len(received) < MaxChunks
  /\ \E k \in 1..Len(pending) :
       /\ text' = Utf8Decode(SubSeq(pending, 1, k))
       /\ received' = Append(received, SubSeq(pending, 1, k))
       /\ pending' = SubSeq(pending, k + 1, Len(pending))
  /\ UNCHANGED <<pc, statusCode, framing, errored, src, body, data, tables, rustFile, file,
                 fmtCalls, buildCalls, log>>

\* res.on("data", (chunk) => { text += chunk; }): a chunk is any non-empty
\* run of the outstanding bytes
OnData ==
  /\ pc = "response"
  /\ pending # <<>>
  /\ Len(received) < MaxChunks
  /\ \E k \in 1..Len(pending) :
       /\ text' = text \o Utf8Decode(SubSeq(pending, 1, k))
       /\ received' = Append(received, SubSeq(pending, 1, k))
       /\ pending' = SubSeq(pending, k + 1, Len(pending))
  /\ UNCHANGED <<pc, statusCode, framing, errored, src, body, data, tables, rustFile, file,
                 fmtCalls, buildCalls, log>>

\* the connection ends before a response with a Content-Length has all its
\* bytes or before a chunked response has its terminating chunk, after an
\* 'error' of the request or without one: the response is aborted, no
\* handler of the script runs, no 'end' follows
OnAborted ==
  /\ pc = "response"
  /\ \/ framing = "length" /\ pending # <<>>
     \/ framing = "chunked"
  /\ pc' = "aborted"
  /\ UNCHANGED <<statusCode, framing, errored, src, body, pending, received,
                 text, data, tables, rustFile, file, fmtCalls, buildCalls, log>>

\* res.on("end", () => { buildRustFile(text); }), up to the call of
\* fs.writeFileSync
OnEnd ==
  /\ pc = "response"
  /\ pending = <<>>
  /\ buildCalls' = buildCalls + 1
  /\ data' = MatchAll(text)
  /\ tables' = BuildTables(MatchAll(text))
  /\ rustFile' = RustFileOf(BuildTables(MatchAll(text)))
  /\ log' = log \o CountLines(BuildTables(MatchAll(text)))
                \o <<"Writing output file...">>
  /\ pc' = "write"
  /\ UNCHANGED <<statusCode, framing, errored, src, body, pending, received, text, file,
                 fmtCalls>>

WriteFileSyncSwallow ==
  /\ pc = "write"
  /\ \/ /\ file' = rustFile
        /\ log' = Append(log, "Running rustfmt...")
        /\ pc' = "rustfmt"
     \/ /\ pc' = "rustfmt"
        /\ log' = Append(log, "Running rustfmt...")
        /\ UNCHANGED file
  /\ UNCHANGED <<statusCode, framing, errored, src, body, pending, received, text, data, tables,
                 rustFile, fmtCalls, buildCalls>>

\* fs.writeFileSync(OUTPUT_FILE, rustFile): overwrites the file, or throws
\* and the uncaught exception ends the process.  It throws either at the
\* open, which leaves the file, or after the open has truncated the file,
\* which leaves a proper prefix of rustFile.
WriteFileSync ==
  /\ pc = "write"
  /\ \/ /\ file' = rustFile
        /\ log' = Append(log, "Running rustfmt...")
        /\ pc' = "rustfmt"
     \/ /\ pc' = "writeFailed"
        /\ \/ UNCHANGED file
           \/ \E k \in 0..(Len(rustFile) - 1) : file' = SubSeq(rustFile, 1, k)
        /\ UNCHANGED log
  /\ UNCHANGED <<statusCode, framing, errored, src, body, pending, received, text, data, tables,
                 rustFile, fmtCalls, buildCalls>>

\* child_process.execSync(`rustfmt ${OUTPUT_FILE}`): rustfmt rewrites the
\* file in place, or execSync throws when rustfmt is missing or exits with
\* a failure and the file stays as written
Rustfmt ==
  /\ pc = "rustfmt"
  /\ fmtCalls' = fmtCalls + 1
  /\ \/ /\ file' = RustfmtOutput(file)
        /\ pc' = "done"
     \/ /\ pc' = "fmtFailed"
        /\ UNCHANGED file
  /\ UNCHANGED <<statusCode, framing, errored, src, body, pending, received, text, data, tables,
                 rustFile, buildCalls, log>>

Next ==
  \/ OnRequestError
  \/ OnResponse
  \/ OnData
  \/ OnAborted
  \/ OnEnd
  \/ WriteFileSync
  \/ Rustfmt

Spec == Init /\ [][Next]_vars

\* buildRustFile applied to a text: the state in which the whole of a text
\* of a successful response has been received and 'end' is due
InitBuild ==
  /\ pc = "response"
  /\ statusCode = 200
  /\ framing = "length"
  /\ errored = FALSE
  /\ src \in Texts(MaxLines)
  /\ text = RenderText(src)
  /\ body = Utf8Encode(text)
  /\ pending = <<>>
  /\ received = IF body = <<>> THEN <<>> ELSE <<body>>
  /\ data = <<>>
  /\ tables = <<>>
  /\ rustFile = <<>>
  /\ file = OldFile
  /\ fmtCalls = 0
  /\ buildCalls = 0
  /\ log = <<>>

NextBuild ==
  \/ OnEnd
  \/ WriteFileSync
  \/ Rustfmt

SpecBuild == InitBuild /\ [][NextBuild]_vars

Built == buildCalls > 0

\* ------------------------------------------------------------------
\* Properties
\* ------------------------------------------------------------------
TargetIndex == 1..Len(TARGET_PROPERTIES)

\* numeric start and end of a parsed record, the end being the start when
\* the record has no ..end suffix
RecStart(r) == ParseInt16(r.codePointStart)
RecEnd(r) ==
  IF r.codePointEnd = Undefined THEN ParseInt16(r.codePointStart)
  ELSE ParseInt16(r.codePointEnd)

\* the parsed records whose property name is that of target property i
RecordsOf(i) == {j \in 1..Len(data) : data[j].property = TARGET_PROPERTIES[i][1]}
Covered(i) == UNION {RecStart(data[j])..RecEnd(data[j]) : j \in RecordsOf(i)}
TableSet(i) == {tables[i][k] : k \in 1..Len(tables[i])}
Occurrences(i, cp) == Cardinality({k \in 1..Len(tables[i]) : tables[i][k] = cp})

RECURSIVE SumOver(_, _)
SumOver(S, f) ==
  IF S = {} THEN 0
  ELSE LET x == CHOOSE y \in S : TRUE IN f[x] + SumOver(S \ {x}, f)

\* C1: the set of code points of the table of a target property is exactly
\* the union of the inclusive ranges of the parsed records of that property.
C1_TableIsUnionOfRanges ==
  Built => \A i \in TargetIndex : TableSet(i) = Covered(i)

C1_Witness ==
  /\ Built
  /\ \E i \in TargetIndex :
       /\ Cardinality(RecordsOf(i)) = 2
       /\ Cardinality(TableSet(i)) >= 4

\* C2: when the ranges of the records of a target property are pairwise
\* disjoint, its table is strictly increasing, whatever the order of the
\* records in the text.
C2_StrictlyIncreasing ==
  Built =>
    \A i \in TargetIndex :
      (\A j, k \in RecordsOf(i) :
         j # k => (RecStart(data[j])..RecEnd(data[j]))
                    \cap (RecStart(data[k])..RecEnd(data[k])) = {})
      => \A n \in 1..(Len(tables[i]) - 1) : tables[i][n] < tables[i][n + 1]

C2_Witness ==
  /\ Built
  /\ \E i \in TargetIndex :
       /\ RecordsOf(i) = {1, 2}
       /\ RecStart(data[1]) > RecEnd(data[2])
       /\ RecStart(data[2]) < RecEnd(data[2])
       /\ Len(tables[i]) = 4

\* a line matches the record pattern when the regex matches in it
LineMatches(l) == MatchAll(RenderLine(l)) # <<>>

\* C3: lines that do not match the record pattern contribute nothing: the
\* tables are those of the text without these lines.
C3_UnmatchedLinesIgnored ==
  Built => tables = BuildTables(MatchAll(RenderText(SelectSeq(src, LineMatches))))

ToleratedTrail(trail) == trail # <<>> /\ IsSpace(trail[1])

WithoutTrail(lines) ==
  [i \in 1..Len(lines) |->
     IF lines[i].form /\ ToleratedTrail(lines[i].trail)
     THEN [lines[i] EXCEPT !.trail = <<>>] ELSE lines[i]]

WithoutLeadAndTrail(lines) ==
  [i \in 1..Len(lines) |->
     IF lines[i].form
     THEN [lines[i] EXCEPT !.lead = <<>>, !.trail = <<>>] ELSE lines[i]]

\* C4 as stated: a line of the record form yields the same record with or
\* without leading white space, trailing white space or a trailing # comment.
C4_LeadAndTrailIgnored ==
  Built => data = MatchAll(RenderText(WithoutLeadAndTrail(src)))

\* C4 as amended: a line of the record form yields the same record with or
\* without trailing white space or a trailing # comment that white space
\* separates from the property token.
C4_TrailIgnored ==
  Built => data = MatchAll(RenderText(WithoutTrail(src)))

C4_Witness ==
  /\ Built
  /\ \E i \in 1..Len(src) : src[i].trail = <<" ", "#", " ", "c">>
  /\ \E j \in 1..Len(data) :
       /\ data[j].property = Pattern_Syntax
       /\ data[j].codePointEnd = <<"0","0","4","3">>

TransportFailure ==
  \/ errored
  \/ statusCode # 0 /\ statusCode \notin 200..299

\* C5: after a transport-level failure of the fetch (connection error,
\* timeout, non-success status) the text is not parsed, the output file is
\* not written and rustfmt is not invoked.
C5_FailureHalts ==
  TransportFailure => buildCalls = 0 /\ file = OldFile /\ fmtCalls = 0

\* C6: rustfmt is invoked at most once and only when the file has been
\* written; after a failed write nothing more happens and rustfmt is never
\* invoked; a failure of rustfmt ends the run and leaves the written content.
C6_FormatAfterWrite ==
  [][/\ fmtCalls' <= 1
     /\ fmtCalls' > fmtCalls => (pc = "rustfmt" /\ file = rustFile /\ Built)
     /\ pc' = "writeFailed" => (fmtCalls' = 0 /\ file' # RustfmtOutput(rustFile'))
     /\ pc = "writeFailed" => UNCHANGED vars
     /\ pc' = "fmtFailed" => (file' = rustFile' /\ file' = file)
     /\ pc = "fmtFailed" => UNCHANGED vars]_vars

C6_Witness ==
  /\ pc = "fmtFailed"
  /\ file = rustFile
  /\ fmtCalls = 1
  /\ errored
  /\ framing = "chunked"

\* the positions of the declarations of the generated document
DeclStarts(f) == {k \in 1..Len(f) : f[k] = "pub(crate) static "}
NthStart(f, n) ==
  CHOOSE k \in DeclStarts(f) :
    Cardinality({m \in DeclStarts(f) : m < k}) = n - 1
DeclLast(f, n) ==
  IF n = Cardinality(DeclStarts(f)) THEN Len(f) ELSE NthStart(f, n + 1) - 2
\* the code points of the character literals of the n-th declaration
LiteralValues(f, n) ==
  {ParseInt16(SubSeq(f, k + 1,
                     (CHOOSE m \in k..Len(f) :
                        f[m] = "}'" /\ \A x \in k..(m - 1) : f[x] # "}'") - 1)) :
     k \in {x \in NthStart(f, n)..DeclLast(f, n) : f[x] = "'\\u{"}}

\* C7: the document is the header followed by one declaration per target
\* property, in the configured order and under the configured names, and a
\* declaration holds code points of records of its own property only.
C7_DocumentLayout ==
  Built =>
    /\ rustFile[1] = OUTPUT_FILE_DOC_COMMENT
    /\ rustFile[2] = "\n\n"
    /\ Cardinality(DeclStarts(rustFile)) = Len(TARGET_PROPERTIES)
    /\ NthStart(rustFile, 1) = 3
    /\ rustFile[Len(rustFile)] = ";"
    /\ \A n \in TargetIndex :
         /\ rustFile[NthStart(rustFile, n) + 1] = TARGET_PROPERTIES[n][2]
         /\ n > 1 => /\ rustFile[NthStart(rustFile, n) - 1] = "\n\n"
                     /\ rustFile[NthStart(rustFile, n) - 2] = ";"
         /\ LiteralValues(rustFile, n) \subseteq Covered(n)

C7_Witness ==
  /\ Built
  /\ \E j \in 1..Len(data) : data[j].property = White_Space
  /\ \E n \in TargetIndex : LiteralValues(rustFile, n) # {}

\* C8 as stated: the table of a target property is empty exactly when no
\* parsed record has its property name.
C8_EmptyIffAbsent ==
  Built => \A i \in TargetIndex : (tables[i] = <<>>) <=> (RecordsOf(i) = {})

\* C8 as amended: the table of a target property is empty exactly when no
\* parsed record of the property has a start that does not exceed its end.
C8_EmptyIffNoNonEmptyRange ==
  Built =>
    \A i \in TargetIndex :
      (tables[i] = <<>>)
        <=> (\A j \in RecordsOf(i) : RecStart(data[j]) > RecEnd(data[j]))

C8_Witness ==
  /\ pc = "done"
  /\ file = RustfmtOutput(rustFile)
  /\ RecordsOf(1) # {}
  /\ tables[1] # <<>>
  /\ RecordsOf(3) = {}
  /\ tables[3] = <<>>

\* C9 as stated: the length of a table is the sum of e - s + 1 over the
\* records of its property.
C9_LengthIsSum ==
  Built =>
    \A i \in TargetIndex :
      Len(tables[i]) =
        SumOver(RecordsOf(i),
                [j \in RecordsOf(i) |-> RecEnd(data[j]) - RecStart(data[j]) + 1])

\* C9 as amended: a record with s <= e contributes each integer of [s, e]
\* once and a record with e < s contributes nothing, without de-duplication.
C9_LengthIsSumOfNonEmpty ==
  Built =>
    \A i \in TargetIndex :
      /\ Len(tables[i]) =
           SumOver(RecordsOf(i),
                   [j \in RecordsOf(i) |->
                      IF RecStart(data[j]) <= RecEnd(data[j])
                      THEN RecEnd(data[j]) - RecStart(data[j]) + 1 ELSE 0])
      /\ \A cp \in Covered(i) \cup TableSet(i) :
           Occurrences(i, cp) =
             Cardinality({j \in RecordsOf(i) :
                            RecStart(data[j]) <= cp /\ cp <= RecEnd(data[j])})

C9_Witness ==
  /\ Built
  /\ \E i \in TargetIndex : \E cp \in TableSet(i) :
       /\ Occurrences(i, cp) = 2
       /\ Len(tables[i]) = 4

RECURSIVE Flatten(_)
\* the bytes of a sequence of chunks
Flatten(chunks) ==
  IF chunks = <<>> THEN <<>> ELSE Head(chunks) \o Flatten(Tail(chunks))

RECURSIVE ConcatStrings(_)
\* the concatenation of the strings of the chunks, first chunk first
ConcatStrings(chunks) ==
  IF chunks = <<>> THEN <<>>
  ELSE Utf8Decode(Head(chunks)) \o ConcatStrings(Tail(chunks))

\* C10: buildRustFile is called at most once, after 'end', with all the
\* chunks in their order of arrival; under any interleaving of 'data', 'end'
\* and 'error' nothing is parsed, written or formatted while a part of the
\* body is outstanding.
C10_WholeBodyBeforeParse ==
  /\ buildCalls <= 1
  /\ Built => (pending = <<>> /\ Flatten(received) = body
               /\ text = ConcatStrings(received) /\ data = MatchAll(text))
  /\ (pending # <<>> \/ pc \in {"request", "reqError", "aborted"})
       => (buildCalls = 0 /\ file = OldFile /\ fmtCalls = 0)
  /\ pc = "response" => (Flatten(received) \o pending = body
                         /\ text = ConcatStrings(received))

C10_Witness ==
  /\ Built
  /\ errored
  /\ framing = "length"
  /\ Len(received) = 2
  /\ text # Utf8Decode(body)
====
